---- MODULE Spec2Model ----
(***************************************************************************)
(* Model of the streaming client (frontend/chat_deployed.py: process_line, *)
(* get_stream) and of the tool-calling agent graph (scout/graph.py:        *)
(* Agent.build_graph).                                                     *)
(*                                                                         *)
(* Python strings are sequences of tokens (a token is one character or one *)
(* fixed piece of text), so that concatenation, emptiness, prefixes and    *)
(* whitespace stripping are computed and not assumed.  Python dicts are    *)
(* records with a "keys" field naming the keys that are present, so that   *)
(* d[k] on an absent key raises KeyError and d.get(k, default) yields the  *)
(* default.                                                                *)
(***************************************************************************)
EXTENDS Naturals, Sequences, FiniteSets, TLC

\* ------------------------------------------------------------------------
\* Bounds
\* ------------------------------------------------------------------------
MaxLines == 4        \* lines read from one response stream

\* ------------------------------------------------------------------------
\* Python values
\* ------------------------------------------------------------------------
\* None where a string is expected (a string is a sequence of tokens).
None == <<"<None>">>

\* None where a single token is expected (a JSON null tool name).
NoneName == "<None>"

\* "\n\n"
ParagraphBreak == <<"\n", "\n">>

\* f"\n\n< TOOL CALL: {tool_name} >\n\n"
ToolCallHeader(tool_name) ==
    <<"\n", "\n", "< TOOL CALL: ", tool_name, " >", "\n", "\n">>

\* Python truthiness of a str-or-None value
Truthy(s) == s # None /\ s # <<>>

\* Python truthiness of a tool name (str-or-None, one token)
TruthyName(n) == n # NoneName /\ n # ""

\* str.strip() for the space character
RECURSIVE LStrip(_)
LStrip(s) == IF s # <<>> /\ Head(s) = " " THEN LStrip(Tail(s)) ELSE s

RECURSIVE RStrip(_)
RStrip(s) ==
    IF s # <<>> /\ s[Len(s)] = " " THEN RStrip(SubSeq(s, 1, Len(s) - 1)) ELSE s

Strip(s) == RStrip(LStrip(s))

\* needle in haystack, for Python strings
IsSubstring(needle, haystack) ==
    \E i \in 0..(Len(haystack) - Len(needle)) :
        SubSeq(haystack, i + 1, i + Len(needle)) = needle

TypeKey == <<"t", "y", "p", "e">>

\* the result of a call: the exception raised ("" when none) and the
\* value returned
Return(v) == [exc |-> "", ret |-> v]
Raise(e) == [exc |-> e, ret |-> None]

\* ------------------------------------------------------------------------
\* The wire: lines of the response body
\* ------------------------------------------------------------------------
\* One tool-call fragment {"name": ..., "args": ...}
Frag(ks, n, a) == [keys |-> ks, name |-> n, args |-> a]

\* response_metadata
Meta(ks, fr) == [keys |-> ks, finish_reason |-> fr]

\* A message chunk object
Chunk(ks, ty, c, tcc, rm) ==
    [keys |-> ks, type |-> ty, content |-> c,
     tool_call_chunks |-> tcc, response_metadata |-> rm]

AllKeys == {"type", "content", "tool_call_chunks", "response_metadata"}

NoChunk == Chunk({}, "", <<>>, <<>>, Meta({}, ""))

\* A parsed JSON value as process_line uses it: a dict (chunk), a string
\* or a number
JDict(c) == [t |-> "dict", chunk |-> c, s |-> <<>>]
JStr(s) == [t |-> "str", chunk |-> NoChunk, s |-> s]
JNum == [t |-> "num", chunk |-> NoChunk, s |-> <<>>]

\* The text after "data: ": what json.loads makes of it ("invalid" when it
\* raises) and, for an iterable value, the items iteration yields (the
\* elements of an array, the keys of an object, the characters of a string)
Payload(j, its) == [json |-> j, items |-> its]

NoPayload == Payload("invalid", <<>>)

\* A line: its leading characters, the text after them (event lines) and
\* the JSON document after them (data lines)
Line(h, tx, p) == [head |-> h, text |-> tx, payload |-> p]

BlankLine == Line("", <<>>, NoPayload)

\* ---- the values the model draws lines from ----
Hi == <<"H", "i">>

MetaEmpty == Meta({}, "")
MetaStop == Meta({"finish_reason"}, "stop")
MetaToolCalls == Meta({"finish_reason"}, "tool_calls")
MetaOther == Meta({"model_name"}, "")

ArgFragments == {<<>>, <<"{">>, <<"}">>}

Frags ==
    {Frag({"name", "args"}, n, a) : n \in {NoneName, "query_db"}, a \in ArgFragments}
    \cup {Frag({"args"}, "", a) : a \in ArgFragments}

SecondFrag == Frag({"name", "args"}, "generate_visualization", <<"[">>)

AIChunks ==
    {Chunk(AllKeys, "AIMessageChunk", c, tcc, rm) :
        c \in {<<>>, Hi},
        tcc \in {<<>>} \cup {<<f>> : f \in Frags},
        rm \in {MetaEmpty, MetaStop, MetaToolCalls}}
    \cup {Chunk(AllKeys, "AIMessageChunk", <<>>, <<f, SecondFrag>>, rm) :
        f \in Frags, rm \in {MetaEmpty, MetaToolCalls}}
    \cup {Chunk(AllKeys, "AIMessageChunk", Hi, <<>>, MetaOther)}

\* chunks with one key missing
PartialChunks ==
    {Chunk(AllKeys \ {k}, "AIMessageChunk", Hi, tcc, rm) :
        k \in {"content", "tool_call_chunks", "response_metadata"},
        tcc \in {<<>>, <<Frag({"name", "args"}, "query_db", <<>>)>>},
        rm \in {MetaEmpty, MetaToolCalls}}

\* chunks that are not assistant chunks
OtherChunks ==
    {Chunk(IF ty = "" THEN AllKeys \ {"type"} ELSE AllKeys, ty, Hi, tcc, rm) :
        ty \in {"", "tool"},
        tcc \in {<<>>, <<Frag({"name", "args"}, "query_db", <<"{">>)>>},
        rm \in {MetaEmpty, MetaToolCalls}}
    \cup {Chunk({"type", "content"}, "tool", Hi, <<>>, MetaEmpty)}

Chunks == AIChunks \cup PartialChunks \cup OtherChunks

MetadataObj == JDict(NoChunk)

WellFormedPayloads == {Payload("array", <<JDict(c), MetadataObj>>) : c \in Chunks}

MalformedPayloads ==
    { Payload("invalid", <<>>),
      Payload("scalar", <<>>),
      Payload("string", <<>>),
      Payload("string", <<JStr(<<"a">>), JStr(<<"b">>)>>),
      Payload("string", <<JStr(<<"a">>), JStr(<<"b">>), JStr(<<"c">>)>>),
      Payload("array", <<>>),
      Payload("array", <<JDict(Chunk(AllKeys, "AIMessageChunk", Hi, <<>>, MetaEmpty))>>),
      Payload("array", <<JDict(Chunk(AllKeys, "AIMessageChunk", Hi, <<>>, MetaEmpty)),
                         MetadataObj, MetadataObj>>),
      Payload("array", <<JNum, MetadataObj>>),
      Payload("array", <<JStr(<<"a", "b">>), MetadataObj>>),
      Payload("array", <<JStr(TypeKey), MetadataObj>>),
      Payload("object", <<JStr(TypeKey)>>),
      Payload("object", <<JStr(<<"r", "u", "n">>), JStr(<<"i", "d">>)>>),
      Payload("object", <<JStr(TypeKey), JStr(<<"i", "d">>)>>),
      Payload("object", <<JStr(TypeKey), JStr(<<"i", "d">>), JStr(<<"r", "u", "n">>)>>) }

Payloads == WellFormedPayloads \cup MalformedPayloads

EventLines ==
    {Line("event: ", tx, NoPayload) :
        tx \in {<<"messages">>, <<"metadata">>, <<"values">>,
                <<" ", "messages", " ">>, <<>>}}
    \cup {Line("event:", <<"messages">>, NoPayload)}

DataLines ==
    {Line("data: ", <<>>, p) : p \in Payloads}
    \cup {Line("data:", <<>>, p) :
            p \in {Payload("invalid", <<>>),
                   Payload("array", <<JDict(Chunk(AllKeys, "AIMessageChunk", Hi,
                                                  <<>>, MetaEmpty)), MetadataObj>>)}}

OtherLines ==
    {Line(h, <<>>, NoPayload) : h \in {": ", "id: "}}

Lines == {BlankLine} \cup EventLines \cup DataLines \cup OtherLines

\* ------------------------------------------------------------------------
\* process_line
\* ------------------------------------------------------------------------
\* line.startswith(prefix)
startswith(line, prefix) == line.head = prefix

\* dict.get("finish_reason", "")
finish_reason(response_metadata) ==
    IF "finish_reason" \in response_metadata.keys
    THEN response_metadata.finish_reason ELSE ""

\* the unit made from the first tool-call fragment
tool_call_str(tool_chunk) ==
    LET tool_name == IF "name" \in tool_chunk.keys THEN tool_chunk.name ELSE ""
        args == IF "args" \in tool_chunk.keys THEN tool_chunk.args ELSE <<>>
    IN  IF Truthy(args) THEN Return(args)
        ELSE IF TruthyName(tool_name) THEN Return(ToolCallHeader(tool_name))
        ELSE Raise("UnboundLocalError")

\* variant: the tool-call fragments are looked at before the finish reason
ai_message_chunk_fragments_first(message_chunk) ==
    IF "tool_call_chunks" \notin message_chunk.keys THEN Raise("KeyError")
    ELSE IF message_chunk.tool_call_chunks # <<>>
    THEN tool_call_str(message_chunk.tool_call_chunks[1])
    ELSE IF "response_metadata" \notin message_chunk.keys THEN Raise("KeyError")
    ELSE IF message_chunk.response_metadata.keys # {}
            /\ finish_reason(message_chunk.response_metadata) = "tool_calls"
    THEN Return(ParagraphBreak)
    ELSE IF "content" \notin message_chunk.keys THEN Raise("KeyError")
    ELSE Return(message_chunk.content)

\* variant: the content is returned only when response_metadata is empty
ai_message_chunk_else_misplaced(message_chunk) ==
    IF "response_metadata" \notin message_chunk.keys THEN Raise("KeyError")
    ELSE IF message_chunk.response_metadata.keys # {}
            /\ finish_reason(message_chunk.response_metadata) = "tool_calls"
    THEN Return(ParagraphBreak)
    ELSE IF "tool_call_chunks" \notin message_chunk.keys THEN Raise("KeyError")
    ELSE IF message_chunk.tool_call_chunks # <<>>
    THEN tool_call_str(message_chunk.tool_call_chunks[1])
    ELSE IF message_chunk.response_metadata.keys # {} THEN Return(None)
    ELSE IF "content" \notin message_chunk.keys THEN Raise("KeyError")
    ELSE Return(message_chunk.content)

\* variant: the last tool-call fragment is taken
ai_message_chunk_last_fragment(message_chunk) ==
    IF "response_metadata" \notin message_chunk.keys THEN Raise("KeyError")
    ELSE IF message_chunk.response_metadata.keys # {}
            /\ finish_reason(message_chunk.response_metadata) = "tool_calls"
    THEN Return(ParagraphBreak)
    ELSE IF "tool_call_chunks" \notin message_chunk.keys THEN Raise("KeyError")
    ELSE IF message_chunk.tool_call_chunks # <<>>
    THEN tool_call_str(message_chunk.tool_call_chunks[Len(message_chunk.tool_call_chunks)])
    ELSE IF "content" \notin message_chunk.keys THEN Raise("KeyError")
    ELSE Return(message_chunk.content)

\* the branch taken for a chunk whose type is "AIMessageChunk"
ai_message_chunk(message_chunk) ==
    IF "response_metadata" \notin message_chunk.keys THEN Raise("KeyError")
    ELSE IF message_chunk.response_metadata.keys # {}
            /\ finish_reason(message_chunk.response_metadata) = "tool_calls"
    THEN Return(ParagraphBreak)
    ELSE IF "tool_call_chunks" \notin message_chunk.keys THEN Raise("KeyError")
    ELSE IF message_chunk.tool_call_chunks # <<>>
    THEN tool_call_str(message_chunk.tool_call_chunks[1])
    ELSE IF "content" \notin message_chunk.keys THEN Raise("KeyError")
    ELSE Return(message_chunk.content)

\* variant: message_chunk = json.loads(data_content)[0]
json_unpack_first_only(data_content) ==
    IF data_content.json = "invalid" THEN Raise("JSONDecodeError")
    ELSE IF data_content.json = "scalar" THEN Raise("TypeError")
    ELSE IF Len(data_content.items) = 0 THEN Raise("IndexError")
    ELSE Return(<<>>)

\* message_chunk, metadata = json.loads(data_content)
json_unpack(data_content) ==
    IF data_content.json = "invalid" THEN Raise("JSONDecodeError")
    ELSE IF data_content.json = "scalar" THEN Raise("TypeError")
    ELSE IF Len(data_content.items) # 2 THEN Raise("ValueError")
    ELSE Return(<<>>)

\* variant: the type of the chunk is not looked at
messages_event_any_type(data_content) ==
    IF json_unpack(data_content).exc # "" THEN json_unpack(data_content)
    ELSE LET message_chunk == data_content.items[1]
         IN  IF message_chunk.t = "num" THEN Raise("TypeError")
             ELSE IF message_chunk.t = "str" THEN Return(None)
             ELSE ai_message_chunk(message_chunk.chunk)

\* the body under current_event == "messages"
messages_event(data_content) ==
    IF json_unpack(data_content).exc # "" THEN json_unpack(data_content)
    ELSE LET message_chunk == data_content.items[1]
         IN  IF message_chunk.t = "num" THEN Raise("TypeError")
             ELSE IF message_chunk.t = "str"
             THEN IF IsSubstring(TypeKey, message_chunk.s)
                  THEN Raise("TypeError") ELSE Return(None)
             ELSE IF "type" \in message_chunk.chunk.keys
                     /\ message_chunk.chunk.type = "AIMessageChunk"
             THEN ai_message_chunk(message_chunk.chunk)
             ELSE Return(None)

\* variant: the payload is decoded before the event kind is looked at
process_line_decode_first(line, current_event) ==
    IF startswith(line, "data: ")
    THEN IF messages_event(line.payload).exc # "" THEN messages_event(line.payload)
         ELSE IF current_event = <<"messages">> THEN messages_event(line.payload)
         ELSE Return(None)
    ELSE Return(None)

\* variant: a data line with no event marker before it counts as "messages"
process_line_default_messages(line, current_event) ==
    IF startswith(line, "data: ")
    THEN IF current_event = <<"messages">> \/ current_event = None
         THEN messages_event(line.payload)
         ELSE Return(None)
    ELSE Return(None)

process_line(line, current_event) ==
    IF startswith(line, "data: ")
    THEN IF current_event = <<"messages">> THEN messages_event(line.payload)
         ELSE IF current_event = <<"metadata">> THEN Return(None)
         ELSE Return(None)
    ELSE Return(None)

\* ------------------------------------------------------------------------
\* get_stream
\* ------------------------------------------------------------------------
VARIABLES
    full_content,    \* get_stream: the transcript so far
    current_event,   \* get_stream: the kind set by the last event marker
    line,            \* the last line read from the response body
    message_chunk,   \* what process_line returned for that line
    exc,             \* the exception that left get_stream ("" when none)
    pc,              \* "streaming", "returned" or "raised"
    nread,           \* number of lines read
    messages,        \* ScoutState.messages of the thread
    node,            \* the graph node that runs next (END when finished)
    llm_calls,       \* number of self.llm.invoke calls of the run
    run_start,       \* length of messages when the run started
    next_id,         \* the next unused message / tool-call id
    tool_steps,      \* number of runs of the "tools" node in the run
    srv_out,         \* Agent.stream: the concatenation of the units yielded
    srv_tool_call_str, \* Agent.stream: its local tool_call_str
    srv_pc,          \* Agent.stream: "streaming" or "raised"
    cli_pc,          \* main: "start", "prompt", "exited" or "failed"
    cli_last,        \* main: the last command and what failed in it
    cli_printed,     \* main: the diagnostics printed so far
    current_chart,   \* main: the chart shown last
    turns            \* main: number of commands entered

streamvars == <<full_content, current_event, line, message_chunk, exc, pc, nread>>

agentvars == <<messages, node, llm_calls, run_start, next_id, tool_steps>>

srvvars == <<srv_out, srv_tool_call_str, srv_pc>>

clivars == <<cli_pc, cli_last, cli_printed, current_chart, turns>>

vars == <<full_content, current_event, line, message_chunk, exc, pc, nread,
          messages, node, llm_calls, run_start, next_id, tool_steps,
          srv_out, srv_tool_call_str, srv_pc,
          cli_pc, cli_last, cli_printed, current_chart, turns>>

\* variant: full_content = message_chunk
Accumulate_last_wins(content, unit) == unit

\* full_content += message_chunk
Accumulate(content, unit) == content \o unit

InitStream ==
    /\ full_content = <<>>
    /\ current_event = None
    /\ line = BlankLine
    /\ message_chunk = None
    /\ exc = ""
    /\ pc = "streaming"
    /\ nread = 0

\* variant: the event kind applies to one data line only and is reset after it
get_stream_line_event_resets(l) ==
    /\ nread' = nread + 1
    /\ line' = l
    /\ IF l.head = "" /\ l.text = <<>>
       THEN /\ message_chunk' = None
            /\ UNCHANGED <<full_content, current_event, exc, pc>>
       ELSE IF startswith(l, "event: ")
       THEN /\ current_event' = Strip(l.text)
            /\ message_chunk' = None
            /\ UNCHANGED <<full_content, exc, pc>>
       ELSE LET r == process_line(l, current_event)
            IN  IF r.exc # ""
                THEN /\ pc' = "raised"
                     /\ exc' = r.exc
                     /\ message_chunk' = None
                     /\ UNCHANGED <<full_content, current_event>>
                ELSE /\ message_chunk' = r.ret
                     /\ full_content' = IF Truthy(r.ret)
                                        THEN Accumulate(full_content, r.ret)
                                        ELSE full_content
                     /\ current_event' = None
                     /\ UNCHANGED <<exc, pc>>

\* the body of "async for line in stream_response.aiter_lines()" for line l
get_stream_line(l) ==
    /\ nread' = nread + 1
    /\ line' = l
    /\ IF l.head = "" /\ l.text = <<>>
       THEN /\ message_chunk' = None
            /\ UNCHANGED <<full_content, current_event, exc, pc>>
       ELSE IF startswith(l, "event: ")
       THEN /\ current_event' = Strip(l.text)
            /\ message_chunk' = None
            /\ UNCHANGED <<full_content, exc, pc>>
       ELSE LET r == process_line(l, current_event)
            IN  IF r.exc # ""
                THEN /\ pc' = "raised"
                     /\ exc' = r.exc
                     /\ message_chunk' = None
                     /\ UNCHANGED <<full_content, current_event>>
                ELSE /\ message_chunk' = r.ret
                     /\ full_content' = IF Truthy(r.ret)
                                        THEN Accumulate(full_content, r.ret)
                                        ELSE full_content
                     /\ UNCHANGED <<current_event, exc, pc>>

\* one iteration of "async for line in stream_response.aiter_lines()"
ReadLine(l) ==
    /\ pc = "streaming"
    /\ nread < MaxLines
    /\ get_stream_line(l)
    /\ UNCHANGED <<agentvars, srvvars, clivars>>

\* the response body ends: return full_content
EndOfStream ==
    /\ pc = "streaming"
    /\ pc' = "returned"
    /\ UNCHANGED <<full_content, current_event, line, message_chunk, exc, nread>>
    /\ UNCHANGED <<agentvars, srvvars, clivars>>

\* the transport fails while the body is read (timeout=60.0, connection lost)
TransportError ==
    /\ pc = "streaming"
    /\ pc' = "raised"
    /\ exc' = "TransportError"
    /\ UNCHANGED <<full_content, current_event, line, message_chunk, nread>>
    /\ UNCHANGED <<agentvars, srvvars, clivars>>

\* ------------------------------------------------------------------------
\* The agent graph (scout/graph.py)
\* ------------------------------------------------------------------------
MaxModelCalls == 3   \* model invocations of one run
MaxToolCalls == 2    \* tool calls carried by one model response

END == "__end__"

Tools == {"query_db", "generate_visualization"}

ToolCall(i, n) == [id |-> i, name |-> n]

Message(i, ty, tcs, tcid, st) ==
    [id |-> i, type |-> ty, tool_calls |-> tcs, tool_call_id |-> tcid, status |-> st]

HumanMessage(i) == Message(i, "human", <<>>, 0, "")

\* SystemMessage(content=self.system_prompt); it carries no id of the thread
SystemMessage == Message(0, "system", <<>>, 0, "")

\* the model's response: an assistant message with the tool calls it requests
AIMessage(i, names) ==
    Message(i, "ai", [k \in 1..Len(names) |-> ToolCall(i + k, names[k])], 0, "")

\* the result of one tool call
ToolMessage(i, call, st) == Message(i, "tool", <<>>, call.id, st)

\* variant: a reducer that concatenates (operator.add)
add_messages_concat(left, right) == left \o right

\* the add_messages reducer of ScoutState.messages: a message of the update
\* whose id is already in the list replaces that entry in place, any other
\* message is appended
RECURSIVE add_messages(_, _)
add_messages(left, right) ==
    IF right = <<>> THEN left
    ELSE LET m == Head(right)
             hit == {i \in 1..Len(left) : left[i].id = m.id}
         IN  IF hit # {}
             THEN add_messages([left EXCEPT ![CHOOSE i \in hit : TRUE] = m], Tail(right))
             ELSE add_messages(Append(left, m), Tail(right))

\* scout_node: state.messages = state.messages + [response]
scout_node(state_messages, response) == state_messages \o <<response>>

LastMessage(ms) == ms[Len(ms)]

\* variant: the two branches exchanged
router_inverted(state_messages) ==
    IF state_messages[Len(state_messages)].tool_calls = <<>> THEN "tools" ELSE END

\* variant: tool calls lead straight back to the model
router_skips_tools(state_messages) ==
    IF state_messages[Len(state_messages)].tool_calls = <<>> THEN END ELSE "chatbot"

\* router
router(state_messages) ==
    IF state_messages[Len(state_messages)].tool_calls = <<>> THEN END ELSE "tools"

\* variant: the "tools" node leads to END
tools_edge_to_end == END

\* builder.add_edge("tools", "chatbot")
tools_edge == "chatbot"

\* ToolNode(self.tools): one tool message per tool call of the last message,
\* in the order of the calls; failing tools give messages of status error
ToolNode(state_messages, status, first_id) ==
    LET calls == state_messages[Len(state_messages)].tool_calls
    IN  [k \in 1..Len(calls) |-> ToolMessage(first_id + k - 1, calls[k], status)]

\* the thread before the run: new, or holding one finished exchange
Histories ==
    { <<>>,
      <<HumanMessage(1), AIMessage(2, <<"query_db">>),
        ToolMessage(4, ToolCall(3, "query_db"), "success"), AIMessage(5, <<>>)>> }

\* runnable.invoke(input={"messages": [HumanMessage(content=message)]}):
\* the input is merged into the thread and START leads to "chatbot"
InitAgent ==
    \E h \in Histories :
        /\ messages = add_messages(h, <<HumanMessage(Len(h) + 2)>>)
        /\ run_start = Len(h) + 1
        /\ next_id = Len(h) + 3
        /\ node = "chatbot"
        /\ llm_calls = 0
        /\ tool_steps = 0

\* the "chatbot" node followed by its conditional edge
ChatbotStep(names) ==
    /\ node = "chatbot"
    /\ llm_calls < MaxModelCalls
    /\ LET response == AIMessage(next_id, names)
           update == scout_node(messages, response)
       IN  /\ messages' = add_messages(messages, update)
           /\ node' = router(add_messages(messages, update))
    /\ llm_calls' = llm_calls + 1
    /\ next_id' = next_id + 1 + Len(names)
    /\ UNCHANGED <<run_start, tool_steps>>
    /\ UNCHANGED <<streamvars, srvvars, clivars>>

\* the "tools" node followed by its edge
ToolsStep(status) ==
    /\ node = "tools"
    /\ messages' = add_messages(messages, ToolNode(messages, status, next_id))
    /\ next_id' = next_id + Len(LastMessage(messages).tool_calls)
    /\ node' = tools_edge
    /\ tool_steps' = tool_steps + 1
    /\ UNCHANGED <<llm_calls, run_start>>
    /\ UNCHANGED <<streamvars, srvvars, clivars>>

ToolCallLists ==
    UNION {[1..n -> Tools] : n \in 0..MaxToolCalls}

Statuses == {"success", "error"}

AgentNext ==
    \/ \E names \in ToolCallLists : ChatbotStep(names)
    \/ \E status \in Statuses : ToolsStep(status)

\* ------------------------------------------------------------------------
\* Agent.stream (scout/graph.py): the server-side aggregator
\* ------------------------------------------------------------------------
\* tool_call_str before its first assignment
Unbound == <<"<unbound>">>

\* the chunks the graph streams: message objects, every attribute present
ServerChunks == {c \in Chunks : c.keys = AllKeys}

\* the value of tool_call_str after the two ifs of the loop body; the
\* variable is a local of the generator and keeps its value (bound_str)
\* between chunks
stream_tool_call_str(tool_chunk, bound_str) ==
    LET tool_name == IF "name" \in tool_chunk.keys THEN tool_chunk.name ELSE ""
        args == IF "args" \in tool_chunk.keys THEN tool_chunk.args ELSE <<>>
    IN  IF Truthy(args) THEN args
        ELSE IF TruthyName(tool_name) THEN ToolCallHeader(tool_name)
        ELSE bound_str

\* one iteration of the loop of Agent.stream: the units yielded for the
\* chunk (concatenated), the exception raised and the new tool_call_str
stream_chunk(c, bound_str) ==
    IF c.type # "AIMessageChunk"
    THEN [exc |-> "", yielded |-> <<>>, tool_call_str |-> bound_str]
    ELSE LET marker == IF c.response_metadata.keys # {}
                          /\ finish_reason(c.response_metadata) = "tool_calls"
                       THEN ParagraphBreak ELSE <<>>
         IN  IF c.tool_call_chunks # <<>>
             THEN LET t == stream_tool_call_str(c.tool_call_chunks[1], bound_str)
                  IN  IF t = Unbound
                      THEN [exc |-> "UnboundLocalError", yielded |-> marker,
                            tool_call_str |-> t]
                      ELSE [exc |-> "", yielded |-> marker \o t, tool_call_str |-> t]
             ELSE [exc |-> "", yielded |-> marker \o c.content,
                   tool_call_str |-> bound_str]

InitServer ==
    /\ srv_out = <<>>
    /\ srv_tool_call_str = Unbound
    /\ srv_pc = "streaming"

\* the line that carries a chunk as a "messages" event
ChunkLine(c) == Line("data: ", <<>>, Payload("array", <<JDict(c), MetadataObj>>))

MessagesMarker == Line("event: ", <<"messages">>, NoPayload)

\* the server sends the marker of a "messages" event and the client reads it
SendMarker ==
    /\ pc = "streaming"
    /\ srv_pc = "streaming"
    /\ current_event # <<"messages">>
    /\ nread < MaxLines
    /\ get_stream_line(MessagesMarker)
    /\ UNCHANGED <<agentvars, srvvars, clivars>>

\* the graph streams chunk c: Agent.stream handles it, and the same chunk
\* sent as a "messages" event is handled by get_stream
StreamChunk(c) ==
    /\ pc = "streaming"
    /\ srv_pc = "streaming"
    /\ current_event = <<"messages">>
    /\ nread < MaxLines
    /\ LET r == stream_chunk(c, srv_tool_call_str)
       IN  /\ srv_out' = srv_out \o r.yielded
           /\ srv_tool_call_str' = r.tool_call_str
           /\ srv_pc' = IF r.exc # "" THEN "raised" ELSE "streaming"
    /\ get_stream_line(ChunkLine(c))
    /\ UNCHANGED <<agentvars, clivars>>

AgreeNext ==
    \/ SendMarker
    \/ \E c \in ServerChunks : StreamChunk(c)

\* ------------------------------------------------------------------------
\* main (frontend/chat_deployed.py): the interactive loop
\* ------------------------------------------------------------------------
MaxTurns == 3        \* commands entered in one session

Charts == {<<>>, <<"chart1">>, <<"chart2">>}

\* what a handler leaves: where main goes on and what it printed
Outcome(n, pr) == [next |-> n, printed |-> pr]

\* create_thread at the start of main
create_thread_step(failure) ==
    IF failure = "create_thread"
    THEN Outcome("failed", <<"Request failed", "Error">>)
    ELSE Outcome("prompt", <<>>)

\* variant: the failure of get_thread_messages is not caught in the branch
history_command_uncaught(failure) ==
    IF failure = "get_thread_messages"
    THEN Outcome("failed", <<"Request failed", "Error">>)
    ELSE Outcome("prompt", <<>>)

\* the "history" / "h" branch
history_command(failure) ==
    IF failure = "get_thread_messages"
    THEN Outcome("prompt", <<"Request failed", "Error retrieving history">>)
    ELSE Outcome("prompt", <<>>)

\* the "save" / "s" branch
save_command(failure) ==
    IF failure \in {"get_thread_state", "save_thread_state"}
    THEN Outcome("prompt", <<"Request failed", "Error saving thread state">>)
    ELSE Outcome("prompt", <<>>)

\* any other input: stream the reply, then fetch the state
message_command(failure) ==
    IF failure = "get_stream"
    THEN Outcome("failed", <<"Error in get_stream", "Error">>)
    ELSE IF failure = "get_thread_state"
    THEN Outcome("failed", <<"Request failed", "Error">>)
    ELSE Outcome("prompt", <<>>)

Command(c, f) == [cmd |-> c, failure |-> f]

InitCli ==
    /\ cli_pc = "start"
    /\ cli_last = Command("", "")
    /\ cli_printed = <<>>
    /\ current_chart = None
    /\ turns = 0

CreateThread(failure) ==
    /\ cli_pc = "start"
    /\ cli_pc' = create_thread_step(failure).next
    /\ cli_printed' = cli_printed \o create_thread_step(failure).printed
    /\ cli_last' = Command("create_thread", failure)
    /\ UNCHANGED <<current_chart, turns>>
    /\ UNCHANGED <<streamvars, agentvars, srvvars>>

ExitCommand ==
    /\ cli_pc = "prompt"
    /\ turns < MaxTurns
    /\ turns' = turns + 1
    /\ cli_pc' = "exited"
    /\ cli_last' = Command("exit", "")
    /\ UNCHANGED <<cli_printed, current_chart>>
    /\ UNCHANGED <<streamvars, agentvars, srvvars>>

HistoryCommand(failure) ==
    /\ cli_pc = "prompt"
    /\ turns < MaxTurns
    /\ turns' = turns + 1
    /\ cli_pc' = history_command(failure).next
    /\ cli_printed' = cli_printed \o history_command(failure).printed
    /\ cli_last' = Command("history", failure)
    /\ UNCHANGED current_chart
    /\ UNCHANGED <<streamvars, agentvars, srvvars>>

SaveCommand(failure) ==
    /\ cli_pc = "prompt"
    /\ turns < MaxTurns
    /\ turns' = turns + 1
    /\ cli_pc' = save_command(failure).next
    /\ cli_printed' = cli_printed \o save_command(failure).printed
    /\ cli_last' = Command("save", failure)
    /\ UNCHANGED current_chart
    /\ UNCHANGED <<streamvars, agentvars, srvvars>>

\* chart_json is the chart of the thread state fetched after the run
MessageCommand(failure, chart_json) ==
    /\ cli_pc = "prompt"
    /\ turns < MaxTurns
    /\ turns' = turns + 1
    /\ cli_pc' = message_command(failure).next
    /\ cli_printed' = cli_printed \o message_command(failure).printed
    /\ cli_last' = Command("message", failure)
    /\ current_chart' = IF failure = "" /\ Truthy(chart_json) /\ chart_json # current_chart
                        THEN chart_json ELSE current_chart
    /\ UNCHANGED <<streamvars, agentvars, srvvars>>

CliNext ==
    \/ \E f \in {"", "create_thread"} : CreateThread(f)
    \/ ExitCommand
    \/ \E f \in {"", "get_thread_messages"} : HistoryCommand(f)
    \/ \E f \in {"", "get_thread_state", "save_thread_state"} : SaveCommand(f)
    \/ \E f \in {"", "get_stream", "get_thread_state"}, ch \in Charts :
            MessageCommand(f, ch)

Init == InitStream /\ InitAgent /\ InitServer /\ InitCli

Next ==
    \/ \E l \in Lines : ReadLine(l)
    \/ EndOfStream
    \/ TransportError

Spec == Init /\ [][Next]_vars

AgentSpec == Init /\ [][AgentNext]_vars

AgreeSpec == Init /\ [][AgreeNext]_vars

CliSpec == Init /\ [][CliNext]_vars

\* ------------------------------------------------------------------------
\* Properties
\* ------------------------------------------------------------------------
IsPrefix(s, t) == Len(s) <= Len(t) /\ SubSeq(t, 1, Len(s)) = s

\* the step reads one more line of the body; the line is line'
ReadStep == nread' = nread + 1

IsDataLine(l) == startswith(l, "data: ")

\* the payload is an array [chunk object, metadata]
IsChunkPayload(p) == p.json = "array" /\ Len(p.items) = 2 /\ p.items[1].t = "dict"

ChunkOf(l) == l.payload.items[1].chunk

IsAIChunk(c) == "type" \in c.keys /\ c.type = "AIMessageChunk"

HasToolCallsFinish(c) ==
    /\ "response_metadata" \in c.keys
    /\ "finish_reason" \in c.response_metadata.keys
    /\ c.response_metadata.finish_reason = "tool_calls"

\* a chunk that reaches the tool-call branch: an assistant chunk without the
\* tool_calls finish reason and with at least one tool-call fragment
IsToolCallChunk(c) ==
    /\ IsAIChunk(c)
    /\ "response_metadata" \in c.keys
    /\ ~HasToolCallsFinish(c)
    /\ "tool_call_chunks" \in c.keys
    /\ c.tool_call_chunks # <<>>

FragName(f) == IF "name" \in f.keys THEN f.name ELSE ""

FragArgs(f) == IF "args" \in f.keys THEN f.args ELSE <<>>

\* the line read by this step is a data line decoded under kind "messages"
\* that carries a chunk object
ReadsMessagesChunk ==
    /\ ReadStep
    /\ IsDataLine(line')
    /\ current_event = <<"messages">>
    /\ IsChunkPayload(line'.payload)

\* the same, of the last line read in the current state (a data line leaves
\* current_event as it is)
LastWasMessagesChunk ==
    /\ nread > 0
    /\ IsDataLine(line)
    /\ current_event = <<"messages">>
    /\ IsChunkPayload(line.payload)

\* ---- C1 ----
\* C1 as stated: every data line decoded under kind "messages" whose chunk
\* has finish_reason == "tool_calls" makes process_line return exactly
\* "\n\n", and get_stream appends exactly that unit, whatever the chunk.
C1_FinishMarkerEveryChunk ==
    [][ (ReadsMessagesChunk /\ HasToolCallsFinish(ChunkOf(line')))
        => /\ pc' = "streaming"
           /\ message_chunk' = ParagraphBreak
           /\ full_content' = full_content \o ParagraphBreak ]_vars

\* C1 amended: the same for chunks of type "AIMessageChunk": the unit is
\* exactly "\n\n" and exactly it is appended, whatever the chunk's content
\* and tool_call_chunks are.
C1_FinishMarkerAIChunk ==
    [][ (/\ ReadsMessagesChunk
         /\ IsAIChunk(ChunkOf(line'))
         /\ HasToolCallsFinish(ChunkOf(line')))
        => /\ pc' = "streaming"
           /\ message_chunk' = ParagraphBreak
           /\ full_content' = full_content \o ParagraphBreak ]_vars

\* a finish-marker chunk that also carries content and a named fragment with
\* arguments gave "\n\n" after earlier text
C1_Witness ==
    /\ LastWasMessagesChunk
    /\ IsAIChunk(ChunkOf(line))
    /\ HasToolCallsFinish(ChunkOf(line))
    /\ ChunkOf(line).content = Hi
    /\ ChunkOf(line).tool_call_chunks # <<>>
    /\ FragArgs(ChunkOf(line).tool_call_chunks[1]) = <<"{">>
    /\ message_chunk = ParagraphBreak
    /\ Len(full_content) > 2

\* ---- C2 ----
ArgTokens == {"{", "}", "["}

IsArgToken(t) == t \in ArgTokens

\* the argument text of a piece of transcript
ArgumentText(t) == SelectSeq(t, IsArgToken)

C3_HeaderEmitted ==
    [][ (/\ ReadsMessagesChunk
         /\ IsToolCallChunk(ChunkOf(line'))
         /\ TruthyName(FragName(ChunkOf(line').tool_call_chunks[1])))
        => IsPrefix(full_content
                      \o ToolCallHeader(FragName(ChunkOf(line').tool_call_chunks[1])),
                    full_content') ]_vars

\* ---- C5 ----
\* C5 as stated: a data line read while no event marker has been seen makes
\* get_stream fail.
C5_DataBeforeMarkerRaises ==
    [][ (ReadStep /\ IsDataLine(line') /\ current_event = None)
        => pc' = "raised" ]_vars

\* C5 amended: a data line read while no event marker has been seen is
\* skipped: no error, no output, transcript and event kind unchanged, and
\* the stream goes on.
C5_DataBeforeMarkerSkipped ==
    [][ (ReadStep /\ IsDataLine(line') /\ current_event = None)
        => /\ pc' = "streaming"
           /\ exc' = ""
           /\ ~Truthy(message_chunk')
           /\ full_content' = full_content
           /\ current_event' = None ]_vars

\* a well-formed assistant chunk with content arrived first and was dropped
C5_Witness ==
    /\ nread = 1
    /\ pc = "streaming"
    /\ current_event = None
    /\ IsDataLine(line)
    /\ IsChunkPayload(line.payload)
    /\ IsAIChunk(ChunkOf(line))
    /\ ChunkOf(line).content = Hi
    /\ ChunkOf(line).tool_call_chunks = <<>>
    /\ full_content = <<>>

\* ---- C6 ----
\* json.loads fails or its value does not unpack into exactly two elements
NotTwoElements(p) == p.json \in {"invalid", "scalar"} \/ Len(p.items) # 2

IsOtherLine(l) == l.head \notin {"", "event: ", "data: "}

IsBlank(l) == l.head = "" /\ l.text = <<>>

\* C7: a blank line, a line of unrecognized prefix and a data line under a
\* kind other than "messages" give no output and no error and leave the
\* transcript and the event kind unchanged; a line that changes the
\* transcript or raises is a data line decoded under kind "messages".
C7_OnlyMessagesData ==
    [][ /\ (ReadStep /\ (\/ IsBlank(line')
                         \/ IsOtherLine(line')
                         \/ (IsDataLine(line') /\ current_event # <<"messages">>)))
           => /\ pc' = "streaming"
              /\ exc' = ""
              /\ ~Truthy(message_chunk')
              /\ full_content' = full_content
              /\ current_event' = current_event
        /\ (ReadStep /\ (full_content' # full_content \/ pc' = "raised"))
           => (IsDataLine(line') /\ current_event = <<"messages">>) ]_vars

\* a payload that is not JSON went by under kind "metadata"
C7_Witness ==
    /\ pc = "streaming"
    /\ nread > 1
    /\ current_event = <<"metadata">>
    /\ IsDataLine(line)
    /\ line.payload.json = "invalid"
    /\ exc = ""

\* ---- C4 ----
\* C4: a CHATBOT step whose response carries no tool call leads to END; at
\* END nothing further runs; a run whose first response carries no tool call
\* has made exactly one model invocation and appended one message.
C4_NoToolCallsTermination ==
    [][ /\ (node = "chatbot" /\ LastMessage(messages').tool_calls = <<>>)
           => node' = END
        /\ node # END
        /\ (Len(messages') > run_start
              /\ messages'[run_start + 1].tool_calls = <<>>)
           => (node' = END /\ llm_calls' = 1 /\ Len(messages') = run_start + 1)
      ]_vars

C4_Witness ==
    /\ node = END
    /\ llm_calls = 1
    /\ Len(messages) = run_start + 1
    /\ LastMessage(messages).type = "ai"
    /\ LastMessage(messages).tool_calls = <<>>

\* ---- C8 ----
\* the tool messages that reference the call
ResultsOf(ms, call) ==
    {j \in 1..Len(ms) : ms[j].type = "tool" /\ ms[j].tool_call_id = call.id}

\* every tool call of every assistant message has exactly one tool message,
\* and the tool messages of one assistant message follow it in call order
Resolved(ms) ==
    \A i \in 1..Len(ms) :
        \A k \in 1..Len(ms[i].tool_calls) :
            /\ Cardinality(ResultsOf(ms, ms[i].tool_calls[k])) = 1
            /\ i + k <= Len(ms)
            /\ ms[i + k].type = "tool"
            /\ ms[i + k].tool_call_id = ms[i].tool_calls[k].id

\* C8: whenever the model is about to be invoked (and when the run has
\* ended), every tool call carried by an assistant message has exactly one
\* tool message referencing its id, in the order of the calls.
C8_ToolCallResolution ==
    node \in {"chatbot", END} => Resolved(messages)

\* two calls were requested and resolved, and the model is invoked next
C8_Witness ==
    /\ node = "chatbot"
    /\ Len(messages) = run_start + 3
    /\ Len(messages[run_start + 1].tool_calls) = 2
    /\ messages[run_start + 2].tool_call_id = messages[run_start + 1].tool_calls[1].id
    /\ messages[run_start + 3].tool_call_id = messages[run_start + 1].tool_calls[2].id

\* ---- C10 ----
\* C10: every step keeps the previous messages as a prefix of the new ones;
\* a CHATBOT step appends exactly one message, the assistant's response; no
\* system message is ever in messages.
C10_AppendOnly ==
    /\ [][ /\ IsPrefix(messages, messages')
           /\ node = "chatbot"
                => /\ Len(messages') = Len(messages) + 1
                   /\ LastMessage(messages').type = "ai"
           /\ node = "tools"
                => /\ Len(messages') =
                        Len(messages) + Len(LastMessage(messages).tool_calls)
         ]_vars
    /\ [](\A i \in 1..Len(messages) : messages[i].type # "system")

\* a run past CHATBOT, TOOLS and CHATBOT again, on a thread with history
C10_Witness ==
    /\ run_start > 1
    /\ llm_calls = 2
    /\ Len(messages) >= run_start + 3
    /\ LastMessage(messages).type = "ai"

\* ---- C11 ----
\* an assistant chunk with its fields present, without the tool_calls finish
\* reason and with an empty tool_call_chunks list
IsPlainChunk(c) ==
    /\ IsAIChunk(c)
    /\ "response_metadata" \in c.keys
    /\ ~HasToolCallsFinish(c)
    /\ "tool_call_chunks" \in c.keys
    /\ c.tool_call_chunks = <<>>
    /\ "content" \in c.keys

\* C11: for an assistant chunk without the tool_calls finish reason and with
\* an empty tool_call_chunks list the unit is exactly the content string, and
\* exactly it is appended to the transcript (nothing when it is empty).
C11_PlainContent ==
    [][ (ReadsMessagesChunk /\ IsPlainChunk(ChunkOf(line')))
        => /\ pc' = "streaming"
           /\ message_chunk' = ChunkOf(line').content
           /\ full_content' = full_content \o ChunkOf(line').content ]_vars

\* "event: messages", then the chunk with content "Hi" and a stop finish
\* reason: the transcript is "Hi"
C11_Witness ==
    /\ nread = 2
    /\ pc = "streaming"
    /\ LastWasMessagesChunk
    /\ IsPlainChunk(ChunkOf(line))
    /\ ChunkOf(line).response_metadata = MetaStop
    /\ ChunkOf(line).content = Hi
    /\ full_content = Hi

\* ---- C14 ----
\* C14: every line with the prefix "event:" sets the current event kind to
\* the trimmed remainder, and every line with the prefix "data:" is a data
\* line (under kind "messages" a plain assistant chunk is appended), with or
\* without a space after the colon.
C14_LineFraming ==
    [][ ReadStep
        => /\ line'.head \in {"event: ", "event:"}
                => current_event' = Strip(line'.text)
           /\ (/\ line'.head \in {"data: ", "data:"}
               /\ current_event = <<"messages">>
               /\ IsChunkPayload(line'.payload)
               /\ IsPlainChunk(ChunkOf(line')))
                => full_content' = full_content \o ChunkOf(line').content ]_vars

\* ---- C15 ----
\* a line that get_stream takes as an event marker
IsMarker(l) == startswith(l, "event: ")

\* C15: an event marker sets the current event kind and emits nothing; every
\* other line leaves the kind as it is, so a data line is decoded under the
\* kind of the last marker before it (a plain assistant chunk is appended
\* under "messages" and dropped under any other kind); a line adds at most
\* the one unit process_line returned for it.
C15_CurrentEventTracking ==
    [][ ReadStep
        => /\ IsMarker(line')
                => (current_event' = Strip(line'.text) /\ full_content' = full_content)
           /\ ~IsMarker(line') => current_event' = current_event
           /\ (/\ IsDataLine(line')
               /\ IsChunkPayload(line'.payload)
               /\ IsPlainChunk(ChunkOf(line')))
                => full_content' = IF current_event = <<"messages">>
                                   THEN full_content \o ChunkOf(line').content
                                   ELSE full_content
           /\ \/ full_content' = full_content
              \/ /\ Truthy(message_chunk')
                 /\ full_content' = full_content \o message_chunk' ]_vars

\* four lines read, the last a content chunk decoded under "messages" after
\* an earlier data line under that marker had been read
C15_Witness ==
    /\ nread = 4
    /\ pc = "streaming"
    /\ LastWasMessagesChunk
    /\ IsPlainChunk(ChunkOf(line))
    /\ ChunkOf(line).content = Hi
    /\ full_content = ToolCallHeader("query_db") \o <<"{">> \o Hi

\* ---- C16 ----
\* the chunk with only its first tool-call fragment
FirstOnly(c) == [c EXCEPT !.tool_call_chunks = <<c.tool_call_chunks[1]>>]

LaterFragmentTokens == {SecondFrag.name} \cup {SecondFrag.args[i] : i \in 1..Len(SecondFrag.args)}

\* C16: an assistant chunk with two or more tool-call fragments has the
\* outcome of the same chunk with only its first fragment, and no name or
\* args text of a later fragment is ever in the transcript.
C16_FirstFragmentOnly ==
    /\ [][ (/\ ReadsMessagesChunk
            /\ IsAIChunk(ChunkOf(line'))
            /\ "response_metadata" \in ChunkOf(line').keys
            /\ "tool_call_chunks" \in ChunkOf(line').keys
            /\ Len(ChunkOf(line').tool_call_chunks) >= 2)
           => LET r == ai_message_chunk(FirstOnly(ChunkOf(line')))
              IN  IF r.exc # ""
                  THEN pc' = "raised" /\ exc' = r.exc /\ full_content' = full_content
                  ELSE /\ pc' = "streaming"
                       /\ message_chunk' = r.ret
                       /\ full_content' = IF Truthy(r.ret)
                                          THEN full_content \o r.ret
                                          ELSE full_content ]_vars
    /\ [](\A i \in 1..Len(full_content) : full_content[i] \notin LaterFragmentTokens)

\* a chunk with the fragments {"query_db", "{"} and
\* {"generate_visualization", "["} gave the unit "{"
C16_Witness ==
    /\ pc = "streaming"
    /\ LastWasMessagesChunk
    /\ IsToolCallChunk(ChunkOf(line))
    /\ Len(ChunkOf(line).tool_call_chunks) = 2
    /\ ChunkOf(line).tool_call_chunks[2] = SecondFrag
    /\ FragArgs(ChunkOf(line).tool_call_chunks[1]) = <<"{">>
    /\ message_chunk = <<"{">>
    /\ full_content = <<"{">>

\* ---- C18 ----
\* C18: a well-formed assistant chunk with a non-empty tool_call_chunks list
\* and no tool_calls finish reason never makes process_line raise, also when
\* its first fragment has neither a name nor args; decoding goes on.
C18_ToolCallChunkNeverRaises ==
    [][ (/\ ReadsMessagesChunk
         /\ ChunkOf(line').keys = AllKeys
         /\ IsToolCallChunk(ChunkOf(line')))
        => (pc' = "streaming" /\ exc' = "") ]_vars

\* ---- C20 ----
\* C20: a "messages" chunk without a type, or of a type other than
\* "AIMessageChunk", gives no output and no error and leaves the transcript
\* as it is; whenever the transcript changes, the line read was an assistant
\* chunk decoded under "messages".
C20_OnlyAssistantChunks ==
    [][ /\ (ReadsMessagesChunk /\ ~IsAIChunk(ChunkOf(line')))
           => /\ pc' = "streaming"
              /\ exc' = ""
              /\ ~Truthy(message_chunk')
              /\ full_content' = full_content
        /\ (ReadStep /\ full_content' # full_content)
           => (ReadsMessagesChunk /\ IsAIChunk(ChunkOf(line'))) ]_vars

\* a tool message with content, a fragment and the tool_calls finish reason
\* went by after "Hi" had been transcribed
C20_Witness ==
    /\ pc = "streaming"
    /\ LastWasMessagesChunk
    /\ ChunkOf(line).type = "tool"
    /\ ChunkOf(line).content = Hi
    /\ ChunkOf(line).tool_call_chunks # <<>>
    /\ HasToolCallsFinish(ChunkOf(line))
    /\ message_chunk = None
    /\ full_content = Hi

\* ---- C17 ----
\* C17: a run starts in CHATBOT; after a CHATBOT step the next node is TOOLS
\* if the last message carries a tool call and END otherwise; after a TOOLS
\* step the next node is CHATBOT; END is entered only by a CHATBOT step; at
\* END the last message is an assistant message without tool calls and the
\* model was invoked once more than TOOLS ran.
C17_TransitionStructure ==
    /\ [][ /\ node = "chatbot"
                => /\ node' \in {"tools", END}
                   /\ node' = "tools" <=> LastMessage(messages').tool_calls # <<>>
                   /\ llm_calls' = llm_calls + 1 /\ tool_steps' = tool_steps
           /\ node = "tools"
                => /\ node' = "chatbot"
                   /\ tool_steps' = tool_steps + 1 /\ llm_calls' = llm_calls
           /\ node' = END => node = "chatbot" ]_vars
    /\ []((llm_calls = 0 /\ tool_steps = 0) => node = "chatbot")
    /\ [](node = END
            => /\ LastMessage(messages).type = "ai"
               /\ LastMessage(messages).tool_calls = <<>>
               /\ llm_calls = tool_steps + 1)

\* a finished run with three model invocations and two TOOLS steps
C17_Witness ==
    /\ node = END
    /\ llm_calls = 3
    /\ tool_steps = 2
    /\ LastMessage(messages).tool_calls = <<>>

\* ---- C19 ----
\* C19: as long as neither side has failed, the concatenation of the units
\* Agent.stream yielded equals the transcript get_stream built from the same
\* chunks sent as "messages" events.
C19_ProducerConsumerAgreement ==
    (pc = "streaming" /\ srv_pc = "streaming") => srv_out = full_content

\* ---- C13 ----
\* C13: a failure in the history or the save command is reported and main
\* is back at the prompt; a failure of get_stream, or of the state fetch
\* after the run, ends main with the error; after that nothing runs.
C13_CliFailurePolicy ==
    [][ /\ (cli_last'.cmd \in {"history", "save"} /\ cli_last'.failure # "")
           => /\ cli_pc' = "prompt"
              /\ Len(cli_printed') > Len(cli_printed)
              /\ cli_printed'[Len(cli_printed')]
                    \in {"Error retrieving history", "Error saving thread state"}
        /\ (cli_last'.cmd = "message" /\ cli_last'.failure # "")
           => (cli_pc' = "failed" /\ cli_printed'[Len(cli_printed')] = "Error")
        /\ cli_pc \notin {"failed", "exited"} ]_vars

\* a history failure and a save failure were reported, then a failed stream
\* ended the session
C13_Witness ==
    /\ cli_pc = "failed"
    /\ turns = 3
    /\ cli_last = Command("message", "get_stream")
    /\ cli_printed = <<"Request failed", "Error retrieving history",
                       "Request failed", "Error saving thread state",
                       "Error in get_stream", "Error">>

====
